---- MODULE Spec2Model ----
(***************************************************************************)
(* python-docker: a Flask application (app.py) served by waitress, with    *)
(* three handlers (hello, post_method, predict_iris), and a training       *)
(* script (iris_train.py) that fits a KNeighborsClassifier and dumps it to *)
(* knn.pkl.  The two programs share nothing but that file.                 *)
(*                                                                         *)
(* Feature values are kept in tenths (5.1 is 51) so that distances are    *)
(* integers.  Python values are records [t, v]; a request body is a record *)
(* [kind, obj] where kind says what request.get_json() meets.              *)
(***************************************************************************)
EXTENDS Integers, Sequences, FiniteSets, TLC

(***************************************************************************)
(* Bounds of the model.                                                    *)
(***************************************************************************)
NumThreads == 2      \* waitress worker threads that are modelled
MaxRequests == 2     \* requests accepted in one behaviour
MaxRuns == 2         \* runs of iris_train.py in one behaviour

Threads == 1..NumThreads

None == [t |-> "none", v |-> 0]

(***************************************************************************)
(* Python values that json.loads produces, and str() of them as            *)
(* str.format applies it.                                                  *)
(***************************************************************************)
PyStrV(s) == [t |-> "str", v |-> s]
PyInt(n) == [t |-> "int", v |-> n]
PyBool(b) == [t |-> "bool", v |-> b]
PyNone == [t |-> "null", v |-> 0]
PyList(l) == [t |-> "list", v |-> l]

Digit(d) ==
  CASE d = 0 -> "0" [] d = 1 -> "1" [] d = 2 -> "2" [] d = 3 -> "3"
    [] d = 4 -> "4" [] d = 5 -> "5" [] d = 6 -> "6" [] d = 7 -> "7"
    [] d = 8 -> "8" [] d = 9 -> "9"

RECURSIVE NatStr(_)
NatStr(n) == IF n < 10 THEN Digit(n) ELSE NatStr(n \div 10) \o Digit(n % 10)

IntStr(n) == IF n < 0 THEN "-" \o NatStr(-n) ELSE NatStr(n)

\* str(value), which "{}".format(value) uses
PyStr(val) ==
  CASE val.t = "str" -> val.v
    [] val.t = "int" -> IntStr(val.v)
    [] val.t = "bool" -> (IF val.v THEN "True" ELSE "False")
    [] val.t = "null" -> "None"

\* the two arguments of format swapped
FormatSwapped(name, age) ==
  "Hello " \o PyStr(age) \o ". You're " \o PyStr(name) \o " years old."

\* "Hello {}. You're {} years old.".format(name, age)
Format(name, age) ==
  "Hello " \o PyStr(name) \o ". You're " \o PyStr(age) \o " years old."

(***************************************************************************)
(* The classifier: KNeighborsClassifier() and fit(X, y).                   *)
(***************************************************************************)
n_neighbors == 5     \* the default neighbor count of KNeighborsClassifier()

\* load_iris(): the rows 1-3, 51-53 and 101-103 of the bundled dataset
IrisData ==
  << <<51, 35, 14, 2>>, <<49, 30, 14, 2>>, <<47, 32, 13, 2>>,
     <<70, 32, 47, 14>>, <<64, 32, 45, 15>>, <<69, 31, 49, 15>>,
     <<63, 33, 60, 25>>, <<58, 27, 51, 19>>, <<71, 30, 59, 21>> >>
IrisTarget == <<0, 0, 0, 1, 1, 1, 2, 2, 2>>

Fit(k, X, y) == [t |-> "knn", k |-> k, X |-> X, y |-> y]

\* knn = KNeighborsClassifier(); knn.fit(X, y)
TrainedKnn == Fit(n_neighbors, IrisData, IrisTarget)

RECURSIVE SumSq(_, _, _)
SumSq(a, b, i) ==
  IF i > Len(a) THEN 0
  ELSE (a[i] - b[i]) * (a[i] - b[i]) + SumSq(a, b, i + 1)

\* the squared distances of q to the training rows, in row order
RECURSIVE Dists(_, _, _)
Dists(c, q, i) ==
  IF i > Len(c.X) THEN << >>
  ELSE <<SumSq(c.X[i], q, 1)>> \o Dists(c, q, i + 1)

\* row j is nearer than row i (ties go to the lower row index)
Nearer(d, j, i) == d[j] < d[i] \/ (d[j] = d[i] /\ j < i)

\* row i is one of the k nearest training rows
IsNeighbor(c, d, i) ==
  Cardinality({j \in 1..Len(d) : Nearer(d, j, i)}) < c.k

Votes(c, d, label) ==
  Cardinality({i \in 1..Len(d) : c.y[i] = label /\ IsNeighbor(c, d, i)})

Classes(c) == {c.y[i] : i \in 1..Len(c.y)}

\* the label of labels with the most votes; on a tie the lowest label wins
RECURSIVE Mode(_, _, _)
Mode(c, d, labels) ==
  LET l == CHOOSE m \in labels : \A o \in labels : m <= o
      rest == labels \ {l}
      best == Mode(c, d, rest)
  IN  IF rest = {} THEN l
      ELSE IF Votes(c, d, best) > Votes(c, d, l) THEN best ELSE l

\* majority vote among the k nearest rows
PredictOne(c, q) == LET d == Dists(c, q, 1) IN Mode(c, d, Classes(c))

\* the checks of model.predict(X) that raise ValueError
PredictRaises(c, X) ==
  \/ X.t # "list"
  \/ Len(X.v) = 0
  \/ \E i \in 1..Len(X.v) : Len(X.v[i]) # Len(c.X[1])
  \/ c.k > Len(c.X)

\* model.predict(X), for an X that passes the checks
Predict(c, X) == [i \in 1..Len(X.v) |-> PredictOne(c, X.v[i])]

\* str(ndarray): "[0]", "[0 1]"
RECURSIVE Joined(_, _)
Joined(labels, i) ==
  IF i > Len(labels) THEN ""
  ELSE (IF i > 1 THEN " " ELSE "") \o IntStr(labels[i]) \o Joined(labels, i + 1)

ArrayStr(labels) == "[" \o Joined(labels, 1) \o "]"

(***************************************************************************)
(* joblib.dump / joblib.load: the artifact is a stream of three records,   *)
(* written and read one after the other.  The stream ends with STOP; a     *)
(* stream that ends before it cannot be unpickled.                         *)
(***************************************************************************)
Token(tag, n, rows) == [tag |-> tag, n |-> n, rows |-> rows]

Serialize(c) ==
  << Token("PARAMS", c.k, << >>),
     Token("DATA", 0, [i \in 1..Len(c.X) |-> <<c.X[i], c.y[i]>>]),
     Token("STOP", 0, << >>) >>

WellFormed(buf) ==
  /\ Len(buf) = 3
  /\ buf[1].tag = "PARAMS"
  /\ buf[2].tag = "DATA"
  /\ buf[3].tag = "STOP"

\* a load that does not restore the neighbour count
DeserializeLosesParam(buf) ==
  IF WellFormed(buf)
  THEN Fit(1,
           [i \in 1..Len(buf[2].rows) |-> buf[2].rows[i][1]],
           [i \in 1..Len(buf[2].rows) |-> buf[2].rows[i][2]])
  ELSE None

\* the classifier a complete stream holds; None when it cannot be unpickled
Deserialize(buf) ==
  IF WellFormed(buf)
  THEN Fit(buf[1].n,
           [i \in 1..Len(buf[2].rows) |-> buf[2].rows[i][1]],
           [i \in 1..Len(buf[2].rows) |-> buf[2].rows[i][2]])
  ELSE None

\* a knn.pkl left by an earlier training: one neighbour, three rows
PriorKnn ==
  Fit(1, << <<51, 35, 14, 2>>, <<70, 32, 47, 14>>, <<63, 33, 60, 25>> >>,
      <<0, 1, 2>>)

\* a knn.pkl that is no pickle of a classifier
Corrupt == << Token("PARAMS", 3, << >>), Token("STOP", 0, << >>) >>

(***************************************************************************)
(* Requests.  kind is what request.get_json() meets in the body: text that *)
(* is no JSON, the JSON null, a JSON array, or a JSON object (obj).        *)
(***************************************************************************)
Body(kind, obj) == [kind |-> kind, obj |-> obj]
NoBody == Body("none", << >>)
Obj(o) == Body("object", o)

PostBodies ==
  { Body("malformed", << >>), Body("null", << >>),
    Obj(<< >>),
    Obj("name" :> PyStrV("Ada")),
    Obj("age" :> PyInt(30)),
    Obj("name" :> PyStrV("Ada") @@ "age" :> PyInt(30)),
    Obj("name" :> PyStrV("Ada") @@ "age" :> PyBool(TRUE)),
    Obj("name" :> PyNone @@ "age" :> PyInt(-7)),
    Obj("name" :> PyStrV("Ada") @@ "age" :> PyInt(30) @@ "extra" :> PyStrV("Eve")) }

\* feature vectors for X: two rows of four features, a row of three
Inputs ==
  { PyList(<< <<51, 35, 14, 2>>, <<58, 27, 51, 19>> >>),
    PyList(<< <<51, 35, 14>> >>) }

PredictBodies ==
  { Body("malformed", << >>), Body("null", << >>), Obj(<< >>) }
  \cup { Obj("X" :> X) : X \in Inputs }

\* request.get_json() followed by json[key] for each key, in order: the
\* exception raised, or "none"
RECURSIVE LookupExc(_, _, _)
LookupExc(body, keys, i) ==
  IF body.kind = "malformed" THEN "BadRequest"
  ELSE IF i > Len(keys) THEN "none"
  ELSE IF body.kind # "object" THEN "TypeError"
  ELSE IF keys[i] \notin DOMAIN body.obj THEN "KeyError"
  ELSE LookupExc(body, keys, i + 1)

(***************************************************************************)
(* Responses.  An exception that leaves a handler is answered by the       *)
(* framework: an HTTPException by its own page, anything else by 500.      *)
(***************************************************************************)
ErrorStatus(exc) == IF exc = "BadRequest" THEN 400 ELSE 500

ErrorPage(status) ==
  IF status = 400 THEN "<title>400 Bad Request</title>"
  ELSE "<title>500 Internal Server Error</title>"

VARIABLES
  listening,   \* serve() is accepting requests
  accepted,    \* requests accepted so far
  pc,          \* per thread: where its handler stands
  local,       \* per thread: the handler's local variables
  last,        \* the response completed most recently (None before any)
  fileExists,  \* knn.pkl exists
  fileBytes,   \* the records knn.pkl holds
  tpc,         \* where iris_train.py stands
  knn,         \* the trainer's in-memory classifier
  twritten,    \* records the running dump has written
  runs,        \* completed runs of iris_train.py
  firstDump    \* what knn.pkl held when the first run completed

server == <<listening, accepted, pc, local, last>>
disk == <<fileExists, fileBytes>>
trainer == <<tpc, knn, twritten, runs, firstDump>>
vars == <<listening, accepted, pc, local, last, fileExists, fileBytes,
          tpc, knn, twritten, runs, firstDump>>

\* whole: when the load ended no dump was running and the records read were
\* the file's, as they are for every load that overlaps no write; trained: a
\* run of the trainer had completed by then
NoLocal == [body |-> NoBody, buf |-> << >>, model |-> None, whole |-> FALSE,
            trained |-> FALSE]

Init ==
  /\ listening = TRUE
  /\ accepted = 0
  /\ pc = [w \in Threads |-> "idle"]
  /\ local = [w \in Threads |-> NoLocal]
  /\ last = None
  /\ fileExists \in BOOLEAN
  /\ fileBytes \in IF fileExists THEN {Serialize(PriorKnn), Corrupt} ELSE {<< >>}
  /\ tpc = "idle"
  /\ knn = None
  /\ twritten = 0
  /\ runs = 0
  /\ firstDump = << >>

\* a request that completed after a prediction failed on the missing file
After == last.t = "response" /\ (last.exc = "FileNotFoundError" \/ last.after)

Response(route, body, status, text, exc, l) ==
  [t |-> "response", route |-> route, body |-> body, status |-> status,
   text |-> text, exc |-> exc, model |-> l.model, disk |-> l.buf,
   whole |-> l.whole, trained |-> l.trained, after |-> After]

\* the handler of thread w returns text
Return(w, route, body, text, l) ==
  /\ last' = Response(route, body, 200, text, "none", l)
  /\ pc' = [pc EXCEPT ![w] = "idle"]
  /\ local' = [local EXCEPT ![w] = NoLocal]
  /\ UNCHANGED listening

\* an exception that is no HTTPException ends the serving process
RaiseCrash(w, route, body, exc, l) ==
  /\ last' = Response(route, body, ErrorStatus(exc), ErrorPage(ErrorStatus(exc)), exc, l)
  /\ pc' = [pc EXCEPT ![w] = "idle"]
  /\ local' = [local EXCEPT ![w] = NoLocal]
  /\ listening' = (exc = "BadRequest")

\* the handler catches exc itself and answers 200 with its name
RaiseCaught(w, route, body, exc, l) ==
  /\ last' = Response(route, body, 200, exc, exc, l)
  /\ pc' = [pc EXCEPT ![w] = "idle"]
  /\ local' = [local EXCEPT ![w] = NoLocal]
  /\ UNCHANGED listening

\* exc leaves the handler of thread w: the framework answers, the listener
\* goes on
Raise(w, route, body, exc, l) ==
  /\ last' = Response(route, body, ErrorStatus(exc), ErrorPage(ErrorStatus(exc)), exc, l)
  /\ pc' = [pc EXCEPT ![w] = "idle"]
  /\ local' = [local EXCEPT ![w] = NoLocal]
  /\ UNCHANGED listening

Accept(w) ==
  /\ listening
  /\ accepted < MaxRequests
  /\ pc[w] = "idle"
  /\ accepted' = accepted + 1

\* a root handler that loads the model first
HelloNeedsModel(w) ==
  /\ Accept(w)
  /\ IF fileExists /\ Deserialize(fileBytes).t = "knn"
     THEN Return(w, "hello", NoBody, "Hello World!", NoLocal)
     ELSE Raise(w, "hello", NoBody, "FileNotFoundError", NoLocal)
  /\ UNCHANGED <<disk, trainer>>

\* GET /
Hello(w) ==
  /\ Accept(w)
  /\ Return(w, "hello", NoBody, "Hello World!", NoLocal)
  /\ UNCHANGED <<disk, trainer>>

\* json.get(key) in place of json[key]: an absent key reads as None
PostMethodLenient(w, body) ==
  /\ Accept(w)
  /\ IF body.kind # "object"
     THEN Raise(w, "post_method", body, LookupExc(body, <<"name", "age">>, 1), NoLocal)
     ELSE Return(w, "post_method", body,
                 Format(IF "name" \in DOMAIN body.obj THEN body.obj["name"] ELSE PyNone,
                        IF "age" \in DOMAIN body.obj THEN body.obj["age"] ELSE PyNone),
                 NoLocal)
  /\ UNCHANGED <<disk, trainer>>

\* POST /do_post
PostMethod(w, body) ==
  /\ Accept(w)
  /\ IF LookupExc(body, <<"name", "age">>, 1) # "none"
     THEN Raise(w, "post_method", body, LookupExc(body, <<"name", "age">>, 1), NoLocal)
     ELSE Return(w, "post_method", body, Format(body.obj["name"], body.obj["age"]), NoLocal)
  /\ UNCHANGED <<disk, trainer>>

\* X kept in a module-level variable that every thread sees
PredictParseGlobalX(w, body) ==
  /\ Accept(w)
  /\ IF LookupExc(body, <<"X">>, 1) # "none"
     THEN Raise(w, "predict_iris", body, LookupExc(body, <<"X">>, 1), NoLocal)
     ELSE /\ pc' = [pc EXCEPT ![w] = "parsed"]
          /\ local' = [v \in Threads |-> [local[v] EXCEPT !.body = body]]
          /\ UNCHANGED <<listening, last>>
  /\ UNCHANGED <<disk, trainer>>

\* POST /predict_iris: json = request.get_json(); X = json["X"]
PredictParse(w, body) ==
  /\ Accept(w)
  /\ IF LookupExc(body, <<"X">>, 1) # "none"
     THEN Raise(w, "predict_iris", body, LookupExc(body, <<"X">>, 1), NoLocal)
     ELSE /\ pc' = [pc EXCEPT ![w] = "parsed"]
          /\ local' = [local EXCEPT ![w] = [NoLocal EXCEPT !.body = body]]
          /\ UNCHANGED <<listening, last>>
  /\ UNCHANGED <<disk, trainer>>

\* a load that waits while the trainer holds the file
PredictOpenLocked(w) ==
  /\ pc[w] = "parsed"
  /\ tpc # "writing"
  /\ IF ~fileExists
     THEN Raise(w, "predict_iris", local[w].body, "FileNotFoundError", local[w])
     ELSE /\ pc' = [pc EXCEPT ![w] = "reading"]
          /\ UNCHANGED <<listening, local, last>>
  /\ UNCHANGED <<accepted, disk, trainer>>

\* joblib.load("knn.pkl"): open the file
PredictOpen(w) ==
  /\ pc[w] = "parsed"
  /\ IF ~fileExists
     THEN Raise(w, "predict_iris", local[w].body, "FileNotFoundError", local[w])
     ELSE /\ pc' = [pc EXCEPT ![w] = "reading"]
          /\ UNCHANGED <<listening, local, last>>
  /\ UNCHANGED <<accepted, disk, trainer>>

\* the local variables of w after it read the next record of the file
ReadNext(w) == [local[w] EXCEPT !.buf = Append(@, fileBytes[Len(@) + 1])]

\* the classifier of an earlier load, kept and used again
LoadedModelCached(w, buf) ==
  IF last.t = "response" /\ last.model.t = "knn" THEN last.model
  ELSE Deserialize(buf)

\* the classifier joblib.load returns from what w read
LoadedModel(w, buf) == Deserialize(buf)

\* the local variables of w when its load ended with the records of l
Loaded(w, l) ==
  [l EXCEPT !.model = LoadedModel(w, l.buf),
            !.whole = (tpc # "writing" /\ l.buf = fileBytes),
            !.trained = (runs >= 1)]

\* return str(model.predict(X))
Respond(w, l) ==
  IF PredictRaises(l.model, l.body.obj["X"])
  THEN Raise(w, "predict_iris", l.body, "ValueError", l)
  ELSE Return(w, "predict_iris", l.body,
              ArrayStr(Predict(l.model, l.body.obj["X"])), l)

\* joblib.load("knn.pkl"): read the next record.  The load ends with
\* EOFError where the file ends before STOP; with the STOP record it ends
\* and the handler goes on to its return.
PredictRead(w) ==
  /\ pc[w] = "reading"
  /\ IF Len(local[w].buf) >= Len(fileBytes)
     THEN Raise(w, "predict_iris", local[w].body, "EOFError", local[w])
     ELSE IF ReadNext(w).buf[Len(ReadNext(w).buf)].tag # "STOP"
     THEN /\ local' = [local EXCEPT ![w] = ReadNext(w)]
          /\ UNCHANGED <<listening, pc, last>>
     ELSE IF LoadedModel(w, ReadNext(w).buf).t # "knn"
     THEN Raise(w, "predict_iris", local[w].body, "UnpicklingError", ReadNext(w))
     ELSE Respond(w, Loaded(w, ReadNext(w)))
  /\ UNCHANGED <<accepted, disk, trainer>>

(***************************************************************************)
(* iris_train.py                                                           *)
(***************************************************************************)
\* iris = load_iris() ... knn.fit(X, y)
TrainerFit ==
  /\ tpc = "idle"
  /\ runs < MaxRuns
  /\ tpc' = "fitted"
  /\ knn' = Fit(n_neighbors, IrisData, IrisTarget)
  /\ UNCHANGED <<server, disk, twritten, runs, firstDump>>

\* the file opened for appending
NotTruncated(bytes) == bytes

\* what open("knn.pkl", "wb") leaves in the file
Truncated(bytes) == << >>

\* joblib.dump(knn, "knn.pkl"): open the file for writing
TrainerOpen ==
  /\ tpc = "fitted"
  /\ tpc' = "writing"
  /\ fileExists' = TRUE
  /\ fileBytes' = Truncated(fileBytes)
  /\ twritten' = 0
  /\ UNCHANGED <<server, knn, runs, firstDump>>

\* joblib.dump: write the next record; the dump ends with the STOP record
TrainerWrite ==
  /\ tpc = "writing"
  /\ twritten < Len(Serialize(knn))
  /\ fileBytes' = Append(fileBytes, Serialize(knn)[twritten + 1])
  /\ twritten' = twritten + 1
  /\ IF twritten + 1 = Len(Serialize(knn))
     THEN /\ tpc' = "idle"
          /\ runs' = runs + 1
          /\ firstDump' = IF runs = 0 THEN fileBytes' ELSE firstDump
     ELSE UNCHANGED <<tpc, runs, firstDump>>
  /\ UNCHANGED <<server, fileExists, knn>>

Next ==
  \/ \E w \in Threads : Hello(w)
  \/ \E w \in Threads : \E body \in PostBodies : PostMethod(w, body)
  \/ \E w \in Threads : \E body \in PredictBodies : PredictParse(w, body)
  \/ \E w \in Threads : PredictOpen(w)
  \/ \E w \in Threads : PredictRead(w)
  \/ TrainerFit
  \/ TrainerOpen
  \/ TrainerWrite

Spec == Init /\ [][Next]_vars

(***************************************************************************)
(* Properties.                                                             *)
(***************************************************************************)
Done(route) == last.t = "response" /\ last.route = route

HoldsBoth(body) ==
  body.kind = "object" /\ "name" \in DOMAIN body.obj /\ "age" \in DOMAIN body.obj

LacksKey(body) == body.kind = "object" /\ ~HoldsBoth(body)

\* C1: a POST /do_post whose JSON object lacks name or age ends in the
\* framework's error response, never in a 200 with a greeting.
C1_MissingKeyFails ==
  (Done("post_method") /\ LacksKey(last.body)) =>
     /\ last.status = 500
     /\ last.text = "<title>500 Internal Server Error</title>"

C1_Witness ==
  /\ Done("post_method")
  /\ last.body.kind = "object"
  /\ DOMAIN last.body.obj = {"name"}
  /\ last.status = 500

\* a JSON value as the request wrote it (a string without its quotes)
JsonText(val) ==
  CASE val.t = "str" -> val.v
    [] val.t = "int" -> IntStr(val.v)
    [] val.t = "bool" -> (IF val.v THEN "true" ELSE "false")
    [] val.t = "null" -> "null"

\* a value as Python's str() shows it
Shown(val) ==
  CASE val.t \in {"str", "int"} -> JsonText(val)
    [] val.t = "bool" -> (IF val.v THEN "True" ELSE "False")
    [] val.t = "null" -> "None"

\* C2 as stated: a POST /do_post whose body holds name and age answers 200
\* with "Hello {name}. You're {age} years old." holding the two values
\* verbatim, whatever else the body holds and whatever was served before.
C2_Verbatim ==
  (Done("post_method") /\ HoldsBoth(last.body)) =>
     /\ last.status = 200
     /\ last.text = "Hello " \o JsonText(last.body.obj["name"]) \o ". You're "
                      \o JsonText(last.body.obj["age"]) \o " years old."

\* C2 as amended: the two values appear as str() shows them: strings and
\* integers verbatim, true, false and null as True, False and None; the
\* answer is a function of the two values alone.
C2_Rendered ==
  (Done("post_method") /\ HoldsBoth(last.body)) =>
     /\ last.status = 200
     /\ last.text = "Hello " \o Shown(last.body.obj["name"]) \o ". You're "
                      \o Shown(last.body.obj["age"]) \o " years old."

C2_Witness ==
  /\ Done("post_method")
  /\ HoldsBoth(last.body)
  /\ "extra" \in DOMAIN last.body.obj
  /\ last.after
  /\ last.text = "Hello Ada. You're 30 years old."

\* the request of a completed prediction could be answered normally: X is
\* there, the load met a whole file, and X fits the classifier loaded
Answerable(r) ==
  /\ LookupExc(r.body, <<"X">>, 1) = "none"
  /\ WellFormed(r.disk)
  /\ ~PredictRaises(Deserialize(r.disk), r.body.obj["X"])

\* C3: after a prediction failed on the missing knn.pkl the listener is
\* still running, and every request completed afterwards has its normal
\* response: GET / its greeting, a POST /do_post with both keys its
\* sentence, a prediction that finds the file its labels.
C3_ListenerSurvives ==
  /\ (Done("predict_iris") /\ last.exc = "FileNotFoundError") =>
        /\ last.status = 500
        /\ last.disk = << >>
  /\ (last.t = "response" /\ (last.exc = "FileNotFoundError" \/ last.after)) =>
        /\ listening
        /\ \A w \in Threads :
             (pc[w] = "idle" /\ accepted < MaxRequests) => ENABLED Hello(w)
  /\ (last.t = "response" /\ last.after) =>
        /\ last.route = "hello" => last.status = 200 /\ last.text = "Hello World!"
        /\ (last.route = "post_method" /\ HoldsBoth(last.body)) => last.status = 200
        /\ (last.route = "predict_iris" /\ Answerable(last)) =>
              /\ last.status = 200
              /\ last.text = ArrayStr(Predict(Deserialize(last.disk), last.body.obj["X"]))

C3_Witness ==
  /\ Done("predict_iris")
  /\ last.after
  /\ last.status = 200

\* C4: a prediction whose load overlapped no write of the trainer is
\* computed by the classifier knn.pkl held at that load, the one the most
\* recent completed run wrote (before any run: the file as it was found),
\* never by a classifier loaded earlier.
C4_LoadsEveryCall ==
  (Done("predict_iris") /\ last.status = 200 /\ last.whole) =>
     /\ last.disk = IF ~last.trained THEN Serialize(PriorKnn) ELSE Serialize(TrainedKnn)
     /\ last.model = Deserialize(last.disk)
     /\ last.text = ArrayStr(Predict(Deserialize(last.disk), last.body.obj["X"]))

C4_Witness ==
  /\ Done("predict_iris")
  /\ last.status = 200
  /\ last.whole
  /\ last.trained
  /\ runs = 2
  /\ last.model = TrainedKnn
  /\ last.text = "[0 1]"

\* C5: the classifier loaded from a knn.pkl that the trainer dumped, with no
\* write overlapping the load, predicts on every input as the trainer's
\* in-memory classifier does.
C5_RoundTrip ==
  (Done("predict_iris") /\ last.whole /\ last.trained /\ last.model.t = "knn") =>
     /\ knn.t = "knn"
     /\ \A X \in Inputs :
          /\ PredictRaises(last.model, X) = PredictRaises(knn, X)
          /\ ~PredictRaises(knn, X) => Predict(last.model, X) = Predict(knn, X)
     /\ last.status = 200 =>
          last.text = ArrayStr(Predict(knn, last.body.obj["X"]))

C5_Witness ==
  /\ Done("predict_iris")
  /\ last.whole
  /\ last.trained
  /\ last.model.t = "knn"
  /\ last.status = 200
  /\ last.text = "[0 1]"

\* the error kinds of post_method and predict_iris, told from the request
\* and from what the load met
Malformed(r) == r.body.kind = "malformed"

KeyMissing(r) ==
  /\ ~Malformed(r)
  /\ LookupExc(r.body, IF r.route = "post_method" THEN <<"name", "age">> ELSE <<"X">>, 1)
       # "none"

FileUnreadable(r) ==
  r.route = "predict_iris" /\ ~Malformed(r) /\ ~KeyMissing(r) /\ ~WellFormed(r.disk)

Incompatible(r) ==
  /\ r.route = "predict_iris" /\ ~Malformed(r) /\ ~KeyMissing(r) /\ WellFormed(r.disk)
  /\ PredictRaises(Deserialize(r.disk), r.body.obj["X"])

IsError(r) ==
  /\ r.t = "response"
  /\ r.route \in {"post_method", "predict_iris"}
  /\ Malformed(r) \/ KeyMissing(r) \/ FileUnreadable(r) \/ Incompatible(r)

\* C6 as stated: each of the four error kinds ends in the same default
\* framework response with the unhandled-exception status, never in a 200.
C6_SameUnhandledStatus ==
  IsError(last) =>
     /\ last.status = 500
     /\ last.text = "<title>500 Internal Server Error</title>"

\* C6 as amended: none of the four kinds is caught by the application and
\* none ends in a 200; each ends in the framework's default page: a body
\* that is no JSON in 400 Bad Request, the other three in 500.
C6_DefaultErrorResponse ==
  IsError(last) =>
     /\ last.status = IF Malformed(last) THEN 400 ELSE 500
     /\ last.text = IF Malformed(last) THEN "<title>400 Bad Request</title>"
                    ELSE "<title>500 Internal Server Error</title>"

C6_Witness ==
  /\ IsError(last)
  /\ Incompatible(last)
  /\ last.status = 500

\* C7: once a run of the trainer has completed, knn.pkl holds the dump of
\* the classifier fitted on the fixed data, whatever it held before, and
\* after every later run it holds what it held after the first.
C7_IdempotentOverwrite ==
  (tpc # "writing" /\ runs >= 1) =>
     /\ fileExists
     /\ fileBytes = Serialize(Fit(5, IrisData, IrisTarget))
     /\ fileBytes = firstDump

C7_Witness == tpc = "idle" /\ runs >= 2 /\ fileBytes = firstDump

\* C8: GET / answers 200 "Hello World!" in every state, and an idle thread
\* of the listener can always take it, whatever knn.pkl is and whatever
\* failed before.
C8_HelloNeverFails ==
  /\ Done("hello") => last.status = 200 /\ last.text = "Hello World!"
  /\ \A w \in Threads :
       (listening /\ pc[w] = "idle" /\ accepted < MaxRequests) => ENABLED Hello(w)

C8_Witness ==
  /\ Done("hello")
  /\ last.after
  /\ tpc = "writing"
  /\ Len(fileBytes) = 1
  /\ last.status = 200

\* C9: while a dump is running knn.pkl holds a proper prefix of the new
\* artifact, which is no complete classifier, and nothing keeps a parsed
\* prediction request from opening it; a load that met the end of the file
\* before STOP read neither the previous artifact nor the new one.
C9_TornRead ==
  /\ tpc = "writing" =>
        /\ fileExists
        /\ Len(fileBytes) < Len(Serialize(knn))
        /\ fileBytes = SubSeq(Serialize(knn), 1, Len(fileBytes))
        /\ Deserialize(fileBytes).t = "none"
        /\ \A w \in Threads : pc[w] = "parsed" => ENABLED PredictOpen(w)
  /\ (Done("predict_iris") /\ last.exc = "EOFError") =>
        /\ ~last.whole
        /\ last.status = 500
        /\ Len(last.disk) < Len(Serialize(TrainedKnn))

C9_Witness ==
  /\ Done("predict_iris")
  /\ last.exc = "EOFError"
  /\ tpc = "writing"
  /\ twritten = 1
  /\ last.disk = fileBytes
  /\ last.disk = SubSeq(Serialize(TrainedKnn), 1, 1)

\* C10: a step of a handler changes neither knn.pkl nor the trainer nor the
\* listener nor the local variables of another thread, and a prediction is
\* a function of its own X and of the records its own load read.
C10_Independent ==
  /\ [][server' # server =>
          /\ UNCHANGED <<disk, trainer>>
          /\ listening' = listening
          /\ \E w \in Threads :
               \A v \in Threads \ {w} : pc'[v] = pc[v] /\ local'[v] = local[v]]_vars
  /\ [][disk' # disk => (tpc = "fitted" \/ tpc = "writing")]_vars
  /\ []((Done("predict_iris") /\ last.status = 200) =>
          last.text = ArrayStr(Predict(Deserialize(last.disk), last.body.obj["X"])))

C10_Witness ==
  /\ pc[1] = "reading"
  /\ pc[2] = "reading"
  /\ Len(local[1].buf) = 2
  /\ Len(local[2].buf) = 1
  /\ local[1].buf[1] # local[2].buf[1]
  /\ local[1].body # local[2].body
  /\ tpc = "writing"

====
